---- MODULE Spec2Model ----
(***************************************************************************)
(* Model of the iFlytek (Xunfei) proxy, src/functions/api/[[path]].ts, and *)
(* of the token cache of the client service, src/unnamed/part_012.         *)
(*                                                                         *)
(* Spec and FairSpec follow one request through onRequest, handleTts and   *)
(* handleEvaluation, from the method gate to the response.  The session    *)
(* created by the Promise executor of handleEvaluation (settled flag,      *)
(* timer, socket, listeners) is a record; every listener is an operator    *)
(* from a session record to a session record, and every action runs one    *)
(* whole callback, as the single-threaded JavaScript event loop does.      *)
(* SessionsSpec follows two such sessions at once, TokenSpec the calls of  *)
(* getAccessToken interleaved at their awaits, and SignSpec one call of    *)
(* getXunfeiAuthParams.                                                    *)
(*                                                                         *)
(* String literals of the source that are not ASCII are written here as    *)
(* ASCII tags; the tag of each literal is given where it is defined.       *)
(***************************************************************************)
EXTENDS Integers, Sequences, FiniteSets, TLC

VARIABLES request, pc, session, nEvents, lastEvent, settledBy, result

(* The HTTP request handled by onRequest, the response it returns and the  *)
(* calls it has made to the vendor.                                        *)
VARIABLES http, response, outbound

outer == <<http, response, outbound>>

(* What the vendor answered to the fetch of handleTts: empty until the     *)
(* answer is there.                                                        *)
VARIABLES ttsResponse

(* Evaluation sessions that run at the same time, one per call of          *)
(* handleEvaluation in progress: each is the state of one Promise executor. *)
VARIABLES sessions

(* The token cache of the client service (getAccessToken): the module      *)
(* variable cachedToken, the clock read by Date.now(), the calls of        *)
(* getAccessToken in progress or finished, and the tokens the proxy has    *)
(* handed out.                                                             *)
VARIABLES cachedToken, clock, calls, issued, nCalls, nFetches

tokenVars == <<cachedToken, clock, calls, issued, nCalls, nFetches>>

(* One call of getXunfeiAuthParams: its arguments and what it returned. *)
VARIABLES signIn, signOut

signVars == <<signIn, signOut>>

proxyVars ==
    <<request, pc, session, nEvents, lastEvent, settledBy, result, outer,
      ttsResponse, sessions>>

vars == <<proxyVars, tokenVars, signVars>>

(* Number of inbound message events one session is followed for. *)
MaxEvents == 3

(* Number of clock ticks, of calls of getAccessToken and of successful     *)
(* token fetches that the token cache is followed for.                     *)
MaxTicks == 2

MaxCalls == 3

MaxTokens == 2

----------------------------------------------------------------------------
(* Error codes of the rejections, as written in the source.  They are the  *)
(* kinds of the session's failures: XF_API_ERROR a failure reported by the *)
(* vendor (VendorRejected), XF_PARSE_ERROR a frame that could not be read  *)
(* (ParseError), XF_CONNECTION_FAILED a socket error event                 *)
(* (ConnectionFailed), XF_CONNECTION_CLOSED an abnormal close and          *)
(* XF_TIMEOUT the timeout (Timeout).                                       *)
XF_API_ERROR == "XF_API_ERROR"

XF_PARSE_ERROR == "XF_PARSE_ERROR"

XF_CONNECTION_FAILED == "XF_CONNECTION_FAILED"

XF_CONNECTION_CLOSED == "XF_CONNECTION_CLOSED"

XF_TIMEOUT == "XF_TIMEOUT"

----------------------------------------------------------------------------
(* The request body read by handleEvaluation. *)
Requests ==
    {[audioBase64 |-> "audioA", audioMimeType |-> "audio/pcm",
      referenceText |-> "cat"],
     [audioBase64 |-> "audioB", audioMimeType |-> "audio/mpeg",
      referenceText |-> "dog"]}

(* const encoding = audioMimeType === 'audio/pcm' ? 'raw' : 'lame' *)
encoding(req) == IF req.audioMimeType = "audio/pcm" THEN "raw" ELSE "lame"

(* The first frame sent: status 0, the parameters and the whole audio. *)
requestFrame(req) ==
    [status |-> 0,
     lang |-> "en", core |-> "word", refText |-> req.referenceText,
     phoneme_output |-> 1,
     encoding |-> encoding(req), audio |-> req.audioBase64]

(* The second frame sent: { header: { app_id, status: 2 } }. *)
endFrame ==
    [status |-> 2,
     lang |-> "", core |-> "", refText |-> "",
     phoneme_output |-> 0,
     encoding |-> "", audio |-> ""]

----------------------------------------------------------------------------
(* The promise created by `new Promise((resolve, reject) => ...)`. *)
NoReason == [message |-> <<>>, code |-> "none"]

PendingPromise == [state |-> "pending", value |-> "none", reason |-> NoReason]

(* The socket handed over by the upgrade response, before ws.accept(). *)
NewSocket ==
    [accepted |-> FALSE, listeners |-> FALSE, readyState |-> "OPEN",
     sent |-> <<>>, closeCalls |-> <<>>]

(* The state of handleEvaluation before the Promise executor has run. *)
NoSession ==
    [settled |-> FALSE, promise |-> PendingPromise, funcCalls |-> 0,
     timer |-> "unset", timerRuns |-> 0, ws |-> NewSocket]

(* The calls of handleEvaluation that run at the same time. *)
Sids == {1, 2}

NoSessions == [i \in Sids |-> NoSession]

(* resolve(value): the first call of resolve or reject decides the promise. *)
resolve(s, value) ==
    [s EXCEPT !.funcCalls = @ + 1,
              !.promise = IF @.state = "pending"
                          THEN [state |-> "fulfilled", value |-> value,
                                reason |-> NoReason]
                          ELSE @]

(* reject(reason) *)
reject(s, reason) ==
    [s EXCEPT !.funcCalls = @ + 1,
              !.promise = IF @.state = "pending"
                          THEN [state |-> "rejected", value |-> "none",
                                reason |-> reason]
                          ELSE @]

(* const cleanup = () => clearTimeout(timeoutId) *)
cleanup(s) == [s EXCEPT !.timer = IF @ = "armed" THEN "cleared" ELSE @]

(* func(value), for the func handed to settle: resolve or reject. *)
call(func, s, value) ==
    IF func = "resolve" THEN resolve(s, value) ELSE reject(s, value)

(* settle without the settled guard. *)
settleUnguarded(s, func, value) ==
    call(func, cleanup([s EXCEPT !.settled = TRUE]), value)

(* settle that leaves the timer armed. *)
settleNoCleanup(s, func, value) ==
    IF ~s.settled THEN call(func, [s EXCEPT !.settled = TRUE], value) ELSE s

(* const settle = (func, value) => { if (!settled) { ... } } *)
settle(s, func, value) ==
    IF ~s.settled
    THEN call(func, cleanup([s EXCEPT !.settled = TRUE]), value)
    ELSE s

(* ws.close(code, reason): the call is recorded; an open socket starts its *)
(* closing handshake, a socket that is closing or closed stays as it is.   *)
wsClose(s, code, reason) ==
    [s EXCEPT !.ws.closeCalls = Append(@, [code |-> code, reason |-> reason]),
              !.ws.readyState = IF @ = "OPEN" THEN "CLOSING" ELSE @]

(* ws.send(data) *)
wsSend(s, frame) == [s EXCEPT !.ws.sent = Append(@, frame)]

----------------------------------------------------------------------------
(* Inbound frames.  event.data is described by what the listener does with *)
(* it: whether JSON.parse(event.data) succeeds, whether the parsed value   *)
(* has a header object, the header's code and message, and                 *)
(* payload.result.text.  A message of "" stands for a missing or empty     *)
(* header.message; both are falsy.                                         *)

(* payload.result.text: truthy or not, accepted by atob or not, and what   *)
(* JSON.parse makes of the decoded text.                                   *)
TextAbsent ==
    [truthy |-> FALSE, b64 |-> FALSE, json |-> "invalid", result |-> "undefined"]

TextNotBase64 ==
    [truthy |-> TRUE, b64 |-> FALSE, json |-> "invalid", result |-> "undefined"]

TextNotJson ==
    [truthy |-> TRUE, b64 |-> TRUE, json |-> "invalid", result |-> "undefined"]

TextJsonNull ==
    [truthy |-> TRUE, b64 |-> TRUE, json |-> "null", result |-> "undefined"]

TextResult(r) ==
    [truthy |-> TRUE, b64 |-> TRUE, json |-> "object", result |-> r]

Results == {"overall82", "overall40"}

Texts ==
    {TextAbsent, TextNotBase64, TextNotJson, TextJsonNull,
     TextResult("undefined")} \cup {TextResult(r) : r \in Results}

VendorCodes == {0, 10163}

VendorMessages == {"", "licc failed"}

NotJsonFrame ==
    [json |-> FALSE, header |-> FALSE, code |-> 0, message |-> "",
     text |-> TextAbsent]

NoHeaderFrame ==
    [json |-> TRUE, header |-> FALSE, code |-> 0, message |-> "",
     text |-> TextAbsent]

EnvelopeFrames ==
    [json : {TRUE}, header : {TRUE}, code : VendorCodes,
     message : VendorMessages, text : Texts]

Frames == {NotJsonFrame, NoHeaderFrame} \cup EnvelopeFrames

(* try-block of the message listener up to the call of settle: TRUE when   *)
(* JSON.parse(event.data), response.header.code, atob, the second          *)
(* JSON.parse or decodedResult.result throws.                              *)
Throws(f) ==
    \/ ~f.json
    \/ ~f.header
    \/ /\ f.code = 0
       /\ f.text.truthy
       /\ (~f.text.b64 \/ f.text.json = "invalid" \/ f.text.json = "null")

(* `AI 引擎错误: ${response.header.message || '未知错误'}`; the prefix is     *)
(* written "AI engine error: " and the default "unknown error".            *)
ApiErrorMessage(f) ==
    <<"AI engine error: ", IF f.message # "" THEN f.message ELSE "unknown error">>

(* The catch branch of the message listener ('解析 AI 引擎响应失败。'). *)
catchBranch(s) ==
    wsClose(settle(s, "reject",
                   [message |-> <<"failed to parse the AI engine response">>,
                    code |-> XF_PARSE_ERROR]),
            4001, "Parse error")

(* A message listener whose vendor-error branch drops the vendor's text. *)
messageListenerNoText(s, f) ==
    IF Throws(f) THEN catchBranch(s)
    ELSE IF f.code = 0 /\ f.text.truthy
    THEN wsClose(settle(s, "resolve", f.text.result), 1000, "Task completed")
    ELSE IF f.code # 0
    THEN wsClose(settle(s, "reject",
                        [message |-> <<"AI engine error: ", "unknown error">>,
                         code |-> XF_API_ERROR]),
                 4000, "Error received")
    ELSE s

(* A message listener that takes every unparseable frame for a vendor error. *)
messageListenerNoCatch(s, f) ==
    IF ~Throws(f) /\ f.code = 0 /\ f.text.truthy
    THEN wsClose(settle(s, "resolve", f.text.result), 1000, "Task completed")
    ELSE IF Throws(f) \/ f.code # 0
    THEN wsClose(settle(s, "reject",
                        [message |-> ApiErrorMessage(f), code |-> XF_API_ERROR]),
                 4000, "Error received")
    ELSE s

(* A message listener that takes a code-0 frame without a result text for  *)
(* a frame it cannot read.                                                 *)
messageListenerStrict(s, f) ==
    IF Throws(f) \/ (f.code = 0 /\ ~f.text.truthy) THEN catchBranch(s)
    ELSE IF f.code = 0
    THEN wsClose(settle(s, "resolve", f.text.result), 1000, "Task completed")
    ELSE wsClose(settle(s, "reject",
                        [message |-> ApiErrorMessage(f), code |-> XF_API_ERROR]),
                 4000, "Error received")

(* ws.addEventListener('message', (event) => { try {...} catch (e) {...} }) *)
messageListener(s, f) ==
    IF Throws(f) THEN catchBranch(s)
    ELSE IF f.code = 0 /\ f.text.truthy
    THEN wsClose(settle(s, "resolve", f.text.result), 1000, "Task completed")
    ELSE IF f.code # 0
    THEN wsClose(settle(s, "reject",
                        [message |-> ApiErrorMessage(f), code |-> XF_API_ERROR]),
                 4000, "Error received")
    ELSE s

(* ws.addEventListener('error', ...) ('与 AI 评分服务连接失败。') *)
errorListener(s) ==
    settle(s, "reject",
           [message |-> <<"connection to the AI scoring service failed">>,
            code |-> XF_CONNECTION_FAILED])

(* Close events the runtime can deliver.  A close frame of the vendor      *)
(* arrives with the vendor's code and reason and wasClean true; a          *)
(* connection lost without a close frame is reported as 1006, not clean.   *)
VendorCloses ==
    {[code |-> 1000, reason |-> "", wasClean |-> TRUE],
     [code |-> 1011, reason |-> "", wasClean |-> TRUE],
     [code |-> 1006, reason |-> "", wasClean |-> FALSE]}

(* The vendor's answer to the close frame the proxy sent with its first    *)
(* ws.close(code, reason): the code comes back, with or without the reason. *)
CloseEchoes(s) ==
    IF s.ws.closeCalls = <<>> \/ s.ws.readyState # "CLOSING"
    THEN {}
    ELSE {[code |-> s.ws.closeCalls[1].code,
           reason |-> s.ws.closeCalls[1].reason, wasClean |-> TRUE],
          [code |-> s.ws.closeCalls[1].code,
           reason |-> "", wasClean |-> TRUE]}

CloseEvents(s) == VendorCloses \cup CloseEchoes(s)

(* ws.addEventListener('close', (event) => {...})                          *)
(* ('AI 引擎响应超时。', `与 AI 评分服务的连接意外断开 (Code: ${event.code})。`) *)
closeListener(s, ev) ==
    IF ev.code = 1001 /\ ev.reason = "Timeout"
    THEN settle(s, "reject",
                [message |-> <<"AI engine response timed out">>,
                 code |-> XF_TIMEOUT])
    ELSE IF ~ev.wasClean /\ ev.code # 1000
    THEN settle(s, "reject",
                [message |-> <<"connection closed unexpectedly (Code: ",
                               ToString(ev.code), ")">>,
                 code |-> XF_CONNECTION_CLOSED])
    ELSE s

(* The callback of setTimeout(() => { ws.close(1001, 'Timeout') }, 15000). *)
timeoutCallback(s) ==
    wsClose([s EXCEPT !.timer = "fired", !.timerRuns = @ + 1], 1001, "Timeout")

(* An executor that sends the end frame first. *)
promiseExecutorEndFirst(s, req) ==
    wsSend(wsSend([s EXCEPT !.settled = FALSE, !.timer = "armed",
                            !.ws.accepted = TRUE, !.ws.listeners = TRUE],
                  endFrame),
           requestFrame(req))

(* An executor that sends the audio in a start and a middle frame. *)
promiseExecutorStreaming(s, req) ==
    wsSend(wsSend(wsSend([s EXCEPT !.settled = FALSE, !.timer = "armed",
                                   !.ws.accepted = TRUE, !.ws.listeners = TRUE],
                         requestFrame(req)),
                  [requestFrame(req) EXCEPT !.status = 1]),
           endFrame)

(* The executor of the Promise: settled = false, the timer armed,          *)
(* ws.accept(), the three listeners installed, then the two frames sent.   *)
promiseExecutor(s, req) ==
    wsSend(wsSend([s EXCEPT !.settled = FALSE, !.timer = "armed",
                            !.ws.accepted = TRUE, !.ws.listeners = TRUE],
                  requestFrame(req)),
           endFrame)

----------------------------------------------------------------------------
(* Request signing.  A string built by concatenation or by a template      *)
(* literal is the sequence of its pieces, so `${a}: ${b}` is <<a, ": ", b>> *)
(* and the empty string is <<>>.  A missing string argument is <<>> too:   *)
(* both are falsy.  The hash and the HMAC are fixed functions of their     *)
(* inputs, written as the pieces that name them.                           *)

(* toBase64(buffer) and btoa(text) *)
toBase64(text) == <<"base64(">> \o text \o <<")">>

(* sha256_base64(utf8StringToBuf(body)) *)
sha256_base64(text) == toBase64(<<"sha256(">> \o text \o <<")">>)

(* crypto.subtle.sign('HMAC', key of secretKey, signatureOrigin) *)
hmacSha256(secretKey, text) ==
    <<"hmac-sha256(", secretKey, ",">> \o text \o <<")">>

(* The names of `headers` as one string: 'host date request-line[ digest]' *)
SignedHeaders(withDigest) ==
    <<"host date request-line">> \o (IF withDigest THEN <<" digest">> ELSE <<>>)

(* A signer that never signs a digest. *)
getXunfeiAuthParamsNoDigest(env, host, path, method, body, date) ==
    LET signatureOrigin ==
            <<"host: ", host, "\n", "date: ", date, "\n",
              method, " ", path, " HTTP/1.1">>
        signature == toBase64(hmacSha256(env.XUNFEI_API_SECRET, signatureOrigin))
    IN  [date |-> date,
         authorization |->
             toBase64(<<"api_key=", env.XUNFEI_API_KEY,
                        ", algorithm=hmac-sha-256, headers=">>
                      \o SignedHeaders(FALSE) \o <<", signature=">> \o signature),
         digestHeader |-> <<>>,
         headers |-> SignedHeaders(FALSE),
         signatureOrigin |-> signatureOrigin]

(* getXunfeiAuthParams(env, host, path, method, body); date is the value   *)
(* of new Date().toUTCString() read by the call.  The record returned has, *)
(* besides date, authorization and digestHeader, the two locals the        *)
(* authorization is made of: headers and signatureOrigin.                  *)
getXunfeiAuthParams(env, host, path, method, body, date) ==
    LET withDigest == method = "POST" /\ body # <<>>
        digestHeader ==
            IF withDigest THEN <<"SHA-256=">> \o sha256_base64(body) ELSE <<>>
        signatureOrigin ==
            <<"host: ", host, "\n", "date: ", date, "\n",
              method, " ", path, " HTTP/1.1">>
            \o (IF withDigest THEN <<"\n", "digest: ">> \o digestHeader ELSE <<>>)
        signature == toBase64(hmacSha256(env.XUNFEI_API_SECRET, signatureOrigin))
    IN  [date |-> date,
         authorization |->
             toBase64(<<"api_key=", env.XUNFEI_API_KEY,
                        ", algorithm=hmac-sha-256, headers=">>
                      \o SignedHeaders(withDigest) \o <<", signature=">> \o signature),
         digestHeader |-> digestHeader,
         headers |-> SignedHeaders(withDigest),
         signatureOrigin |-> signatureOrigin]

----------------------------------------------------------------------------
(* onRequest, handleTts and the calls made to the vendor.                  *)

(* env: a secret that is not set is "". *)
Envs ==
    [XUNFEI_APP_ID : {"", "app1"},
     XUNFEI_API_KEY : {"", "key1"},
     XUNFEI_API_SECRET : {"", "secret1"}]

(* The request: its method, the path of its URL, whether request.json()    *)
(* can read its body, the text of a TTS request, and the env and the clock *)
(* of the worker that handles it.                                          *)
HttpRequests ==
    [method : {"OPTIONS", "GET", "POST"},
     path : {"/api/evaluation", "/api/tts", "/api/token"},
     env : Envs,
     bodyOk : BOOLEAN,
     text : {"hello"},
     date : {"Thu, 05 Nov 2026 03:00:00 GMT"}]

NoBody == [error |-> <<>>, code |-> "", data |-> "none"]

(* The names of the headers onRequest and its handlers set on a response. *)
CorsHeaders ==
    {"Access-Control-Allow-Origin", "Access-Control-Allow-Methods",
     "Access-Control-Allow-Headers", "Access-Control-Max-Age"}

JsonHeaders == {"Content-Type"}

NoResponse == [status |-> 0, json |-> FALSE, body |-> NoBody, headers |-> {}]

(* A catch that answers with a bare status and no JSON body. *)
catchHandlerPlain(error) ==
    [status |-> 500, json |-> FALSE, body |-> NoBody, headers |-> {}]

(* The catch of onRequest:                                                 *)
(* { error: `服务错误: ${error.message || 'An unknown error occurred.'}`,   *)
(*   code: error.code || 'UNKNOWN' } with status 500; the prefix is        *)
(* written "service error: ".  An error without a code has code "none".    *)
catchHandler(error) ==
    [status |-> 500, json |-> TRUE,
     body |-> [error |-> <<"service error: ">> \o
                         (IF error.message # <<>> THEN error.message
                          ELSE <<"An unknown error occurred.">>),
               code |-> IF error.code # "none" THEN error.code ELSE "UNKNOWN",
               data |-> "none"],
     headers |-> JsonHeaders]

(* new Error(message): an error without a code. *)
Error(message) == [message |-> message, code |-> "none"]

(* !XUNFEI_APP_ID || !XUNFEI_API_KEY || !XUNFEI_API_SECRET *)
SecretsMissing(env) ==
    env.XUNFEI_APP_ID = "" \/ env.XUNFEI_API_KEY = "" \/ env.XUNFEI_API_SECRET = ""

(* A router that looks at the path before it looks at the secrets. *)
routeNoConfigCheck(h) ==
    IF h.method = "OPTIONS" THEN "preflight"
    ELSE IF h.method # "POST" THEN "methodNotAllowed"
    ELSE IF h.path = "/api/evaluation" THEN "evaluation"
    ELSE IF h.path = "/api/tts" THEN "tts"
    ELSE "notFound"

(* A router that checks the secrets before it looks at the method. *)
routeConfigFirst(h) ==
    IF SecretsMissing(h.env) THEN "configError"
    ELSE IF h.method = "OPTIONS" THEN "preflight"
    ELSE IF h.method # "POST" THEN "methodNotAllowed"
    ELSE IF h.path = "/api/evaluation" THEN "evaluation"
    ELSE IF h.path = "/api/tts" THEN "tts"
    ELSE "notFound"

(* The decisions of onRequest, in the order it takes them. *)
route(h) ==
    IF h.method = "OPTIONS" THEN "preflight"
    ELSE IF h.method # "POST" THEN "methodNotAllowed"
    ELSE IF SecretsMissing(h.env) THEN "configError"
    ELSE IF h.path = "/api/evaluation" THEN "evaluation"
    ELSE IF h.path = "/api/tts" THEN "tts"
    ELSE "notFound"

(* A fetch wrapped in one retry. *)
fetchWithRetry(made, out) == Append(Append(made, out), out)

(* fetch(url, init): the call leaves the worker. *)
fetch(made, out) == Append(made, out)

(* The upgrade request of handleEvaluation: a GET of                       *)
(* https://${host}${path}?host=..&date=..&authorization=.. *)
upgradeCall(h) ==
    LET host == "cn-east-1.ws-api.xf-yun.com"
        path == "/v1/private/s8e098720"
        auth == getXunfeiAuthParams(h.env, host, path, "GET", <<>>, h.date)
    IN  [kind |-> "upgrade", method |-> "GET", host |-> host, path |-> path,
         date |-> auth.date, authorization |-> auth.authorization,
         digest |-> <<>>, body |-> <<>>]

(* const ttsRequestBody = JSON.stringify({ header, parameter, payload }) *)
ttsRequestBody(h) ==
    <<"{app_id:", h.env.XUNFEI_APP_ID,
      ",tts:{ent:en_vip,vcn:abby,aue:lame,tte:UTF8},text:">>
    \o toBase64(<<h.text>>) \o <<"}">>

(* A POST whose Date header is read from the clock a second time, after    *)
(* the signature was made.                                                 *)
ttsCallDateReadAgain(h) ==
    LET host == "tts-api.xfyun.cn"
        path == "/v2/tts"
        auth == getXunfeiAuthParams(h.env, host, path, "POST",
                                    ttsRequestBody(h), h.date)
    IN  [kind |-> "tts", method |-> "POST", host |-> host, path |-> path,
         date |-> "Thu, 05 Nov 2026 03:00:01 GMT",
         authorization |-> auth.authorization,
         digest |-> auth.digestHeader, body |-> ttsRequestBody(h)]

(* The POST of handleTts with its Date, Authorization and Digest headers. *)
ttsCall(h) ==
    LET host == "tts-api.xfyun.cn"
        path == "/v2/tts"
        auth == getXunfeiAuthParams(h.env, host, path, "POST",
                                    ttsRequestBody(h), h.date)
    IN  [kind |-> "tts", method |-> "POST", host |-> host, path |-> path,
         date |-> auth.date, authorization |-> auth.authorization,
         digest |-> auth.digestHeader, body |-> ttsRequestBody(h)]

(* What the vendor answers to the TTS call: the HTTP status is 2xx or not, *)
(* the body is JSON or not, header.code (-1 when the body has no header or *)
(* no code) and header.message, and whether payload.audio.audio is there.  *)
TtsResponses ==
    [ok : BOOLEAN, json : BOOLEAN, code : {-1, 0, 10109},
     message : {"", "illegal text"}, audio : {"none", "mp3base64"}]

(* handleTts after the fetch: response.json(), the check of header.code    *)
(* and the response built from payload.audio.audio                         *)
(* (`音频合成失败 (${code || 'N/A'}): ${message || '未知错误'}`).            *)
ttsResult(r) ==
    IF ~r.json
    THEN [status |-> 0, body |-> "none",
          error |-> Error(<<"Unexpected token in JSON">>)]
    ELSE IF r.code # 0
    THEN [status |-> 0, body |-> "none",
          error |-> Error(<<"TTS failed (",
                            IF r.code = -1 THEN "N/A" ELSE ToString(r.code),
                            "): ",
                            IF r.message # "" THEN r.message
                            ELSE "unknown error">>)]
    ELSE IF r.audio = "none"
    THEN [status |-> 0, body |-> "none",
          error |-> Error(<<"Cannot read properties of undefined">>)]
    ELSE [status |-> 200, body |-> r.audio, error |-> NoReason]

----------------------------------------------------------------------------
(* getAccessToken and its cache.  Times are in milliseconds. *)

(* The clock advances in steps of 30 seconds. *)
TickMs == 30000

(* expires_in of the token response, in seconds. *)
ExpiresIn == {30, 60, 120}

Callers == {1, 2}

(* let cachedToken: BaiduToken | null = null; null is the record with      *)
(* access_token 0, the tokens handed out are numbered from 1.              *)
Null == [access_token |-> 0, expires_at |-> 0]

(* A cache check that never finds a valid token. *)
cacheValidNever(cache, now) == FALSE

(* cachedToken && cachedToken.expires_at > now *)
cacheValid(cache, now) == cache # Null /\ cache.expires_at > now

(* An expiry without the safety margin. *)
expiresAtNoMargin(now, expiresIn) == now + expiresIn * 1000

(* expires_at: now + (expiresIn - 60) * 1000 *)
expiresAt(now, expiresIn) == now + (expiresIn - 60) * 1000

(* A failure path that clears the cache. *)
cacheAfterFailureCleared(cache) == Null

(* throw new Error(...): the failing call does not touch the cache. *)
cacheAfterFailure(cache) == cache

(* A write that replaces the token and keeps the expiry of the slot. *)
cacheAfterSuccessPartial(cache, now, data) ==
    IF cache = Null
    THEN [access_token |-> data.access_token,
          expires_at |-> expiresAt(now, data.expires_in)]
    ELSE [cache EXCEPT !.access_token = data.access_token]

(* cachedToken = { access_token: data.access_token, expires_at: ... }: the *)
(* slot is replaced by a new object made of one response.                  *)
cacheAfterSuccess(cache, now, data) ==
    [access_token |-> data.access_token,
     expires_at |-> expiresAt(now, data.expires_in)]

(* A call of getAccessToken: where it is, the value of `now` it read, the  *)
(* cache it found, its fetches, and what it returned.                      *)
NoCall ==
    [pc |-> "idle", now |-> 0, seen |-> Null, fetches |-> 0,
     fromCache |-> FALSE, ret |-> 0,
     data |-> [access_token |-> 0, expires_in |-> 0]]

TokenInit ==
    /\ cachedToken = Null
    /\ clock = 0
    /\ calls = [c \in Callers |-> NoCall]
    /\ issued = <<>>
    /\ nCalls = 0
    /\ nFetches = 0

SignIdle ==
    /\ signIn = [env |-> [XUNFEI_APP_ID |-> "", XUNFEI_API_KEY |-> "",
                          XUNFEI_API_SECRET |-> ""],
                 host |-> "", path |-> "", method |-> "GET", body |-> <<>>,
                 date |-> ""]
    /\ signOut = [date |-> "", authorization |-> <<>>, digestHeader |-> <<>>,
                  headers |-> <<>>, signatureOrigin |-> <<>>]

----------------------------------------------------------------------------
(* Events as the listeners see them: lastEvent is the event handled last,  *)
(* settledBy the event whose listener settled the session.                 *)
NoCloseEvent == [code |-> 0, reason |-> "", wasClean |-> TRUE]

NoEvent == [type |-> "none", frame |-> NotJsonFrame, close |-> NoCloseEvent]

MessageEvent(f) == [type |-> "message", frame |-> f, close |-> NoCloseEvent]

ErrorEvent == [type |-> "error", frame |-> NotJsonFrame, close |-> NoCloseEvent]

CloseEvent(ev) == [type |-> "close", frame |-> NotJsonFrame, close |-> ev]

(* What handleEvaluation has handed to its caller. *)
NoResult == [status |-> 0, body |-> "none", error |-> NoReason]

Init ==
    /\ request \in Requests
    /\ pc = "onRequest"
    /\ session = NoSession
    /\ nEvents = 0
    /\ lastEvent = NoEvent
    /\ settledBy = NoEvent
    /\ result = NoResult
    /\ http \in HttpRequests
    /\ response = NoResponse
    /\ outbound = <<>>
    /\ ttsResponse = <<>>
    /\ sessions = NoSessions
    /\ TokenInit
    /\ SignIdle

(* handleEvaluation or handleTts throws: the error is on its way to the    *)
(* catch of onRequest.                                                     *)
Throw(error) ==
    /\ pc' = "thrown"
    /\ result' = [status |-> 0, body |-> "none", error |-> error]

(* onRequest up to its first await: the method gate, the check of the      *)
(* secrets and the choice of the handler.                                  *)
OnRequest ==
    /\ pc = "onRequest"
    /\ LET r == route(http) IN
         CASE r = "preflight" ->
                /\ response' = [status |-> 204, json |-> FALSE, body |-> NoBody,
                                headers |-> CorsHeaders]
                /\ pc' = "done"
                /\ UNCHANGED result
           [] r = "methodNotAllowed" ->
                /\ response' = [status |-> 405, json |-> FALSE, body |-> NoBody,
                                headers |-> {"Allow"}]
                /\ pc' = "done"
                /\ UNCHANGED result
           [] r = "configError" ->
                /\ Throw(Error(<<"Server configuration error.">>))
                /\ UNCHANGED response
           [] r = "evaluation" ->
                /\ pc' = "evalBody"
                /\ UNCHANGED <<response, result>>
           [] r = "tts" ->
                /\ pc' = "ttsBody"
                /\ UNCHANGED <<response, result>>
           [] OTHER ->
                /\ response' = [status |-> 404, json |-> FALSE, body |-> NoBody,
                                headers |-> {}]
                /\ pc' = "done"
                /\ UNCHANGED result
    /\ UNCHANGED <<tokenVars, signVars, sessions, ttsResponse, request, session, nEvents, lastEvent, settledBy, http, outbound>>

(* await request.json() of handleEvaluation or handleTts resumes. *)
ReadBody ==
    /\ pc \in {"evalBody", "ttsBody"}
    /\ IF http.bodyOk
       THEN /\ pc' = IF pc = "evalBody" THEN "evalSign" ELSE "ttsSign"
            /\ UNCHANGED result
       ELSE Throw(Error(<<"Unexpected end of JSON input">>))
    /\ UNCHANGED <<tokenVars, signVars, sessions, ttsResponse, request, session, nEvents, lastEvent, settledBy, outer>>

(* await getXunfeiAuthParams(...) rejects: crypto.subtle failed. *)
SignFails ==
    /\ pc \in {"evalSign", "ttsSign"}
    /\ Throw(Error(<<"crypto.subtle failed">>))
    /\ UNCHANGED <<tokenVars, signVars, sessions, ttsResponse, request, session, nEvents, lastEvent, settledBy, outer>>

(* handleEvaluation: the signature is there and the upgrade is fetched. *)
EvaluationFetch ==
    /\ pc = "evalSign"
    /\ outbound' = fetch(outbound, upgradeCall(http))
    /\ pc' = "upgrade"
    /\ UNCHANGED <<tokenVars, signVars, sessions, ttsResponse, request, session, nEvents, lastEvent, settledBy, result,
                   http, response>>

(* The fetch of the upgrade rejects: the vendor cannot be reached. *)
UpgradeFails ==
    /\ pc = "upgrade"
    /\ Throw(Error(<<"fetch failed">>))
    /\ UNCHANGED <<tokenVars, signVars, sessions, ttsResponse, request, session, nEvents, lastEvent, settledBy, outer>>

(* handleTts: the signature is there and the POST is fetched. *)
TtsFetch ==
    /\ pc = "ttsSign"
    /\ outbound' = fetch(outbound, ttsCall(http))
    /\ pc' = "ttsFetch"
    /\ UNCHANGED <<tokenVars, signVars, sessions, ttsResponse, request, session, nEvents, lastEvent, settledBy, result,
                   http, response>>

(* The fetch of handleTts rejects: the vendor cannot be reached. *)
TtsFails ==
    /\ pc = "ttsFetch"
    /\ Throw(Error(<<"fetch failed">>))
    /\ UNCHANGED <<tokenVars, signVars, sessions, ttsResponse, request, session, nEvents, lastEvent, settledBy, outer>>

(* The vendor answers the TTS call; handleTts returns or throws. *)
TtsResponds(r) ==
    /\ pc = "ttsFetch"
    /\ ttsResponse' = <<r>>
    /\ result' = ttsResult(r)
    /\ pc' = IF ttsResult(r).status = 200 THEN "returned" ELSE "thrown"
    /\ UNCHANGED <<tokenVars, signVars, sessions, request, session, nEvents, lastEvent, settledBy, outer>>

(* onRequest returns: the response of the handler, or the response its     *)
(* catch makes of the error thrown.                                        *)
Respond ==
    /\ pc \in {"returned", "thrown"}
    /\ response = NoResponse
    /\ response' = IF pc = "returned"
                   THEN [status |-> 200, json |-> TRUE,
                         body |-> [error |-> <<>>, code |-> "",
                                   data |-> result.body],
                         headers |-> JsonHeaders]
                   ELSE catchHandler(result.error)
    /\ UNCHANGED <<tokenVars, signVars, sessions, ttsResponse, request, pc, session, nEvents, lastEvent, settledBy, result,
                   http, outbound>>

(* One event handled by the session: s2 is the session after the listener. *)
Handled(s2, event) ==
    /\ session' = s2
    /\ lastEvent' = event
    /\ settledBy' = IF ~session.settled /\ s2.settled THEN event ELSE settledBy
    /\ UNCHANGED <<tokenVars, signVars, sessions, ttsResponse, request, pc, result, outer>>

(* The upgrade response carries a WebSocket: the Promise executor runs. *)
UpgradeAccepted ==
    /\ pc = "upgrade"
    /\ session' = promiseExecutor(session, request)
    /\ pc' = "awaiting"
    /\ UNCHANGED <<tokenVars, signVars, sessions, ttsResponse, request, nEvents, lastEvent, settledBy, result, outer>>

(* A handshake check made after the Promise executor has run. *)
UpgradeRefusedLate ==
    /\ pc = "upgrade"
    /\ pc' = "thrown"
    /\ session' = promiseExecutor(session, request)
    /\ result' = [status |-> 0, body |-> "none",
                  error |-> [message |-> <<"handshake failed">>,
                             code |-> "none"]]
    /\ UNCHANGED <<tokenVars, signVars, sessions, ttsResponse, request, nEvents,
                   lastEvent, settledBy, outer>>

(* if (!ws) { ... throw new Error(`AI 引擎连接握手失败 (status: ...).`) } *)
UpgradeRefused ==
    /\ pc = "upgrade"
    /\ pc' = "thrown"
    /\ result' = [status |-> 0, body |-> "none",
                  error |-> [message |-> <<"handshake failed">>,
                             code |-> "none"]]
    /\ UNCHANGED <<tokenVars, signVars, sessions, ttsResponse, request, session, nEvents, lastEvent, settledBy, outer>>

(* The runtime delivers events to a socket whose listeners are installed   *)
(* until the close event has been delivered.                               *)
Listening == session.ws.listeners /\ session.ws.readyState # "CLOSED"

OnMessage(f) ==
    /\ Listening
    /\ nEvents < MaxEvents
    /\ nEvents' = nEvents + 1
    /\ Handled(messageListener(session, f), MessageEvent(f))

OnError ==
    /\ Listening
    /\ Handled(errorListener(session), ErrorEvent)
    /\ UNCHANGED nEvents

OnClose(ev) ==
    /\ Listening
    /\ Handled(closeListener([session EXCEPT !.ws.readyState = "CLOSED"], ev),
               CloseEvent(ev))
    /\ UNCHANGED nEvents

OnTimeout ==
    /\ session.timer = "armed"
    /\ session' = timeoutCallback(session)
    /\ UNCHANGED <<tokenVars, signVars, sessions, ttsResponse, request, pc, nEvents, lastEvent, settledBy, result, outer>>

(* An await that hands a rejection to the caller as a value. *)
ResumeReturnsRejection ==
    /\ pc = "awaiting"
    /\ session.promise.state # "pending"
    /\ pc' = "returned"
    /\ result' = [status |-> 200, body |-> session.promise.value,
                  error |-> NoReason]
    /\ UNCHANGED <<tokenVars, signVars, sessions, ttsResponse, request, session, nEvents,
                   lastEvent, settledBy, outer>>

(* `const result = await new Promise(...)` resumes: the response with      *)
(* status 200 is returned, or the rejection is thrown to the caller.       *)
Resume ==
    /\ pc = "awaiting"
    /\ session.promise.state # "pending"
    /\ IF session.promise.state = "fulfilled"
       THEN /\ pc' = "returned"
            /\ result' = [status |-> 200, body |-> session.promise.value,
                          error |-> NoReason]
       ELSE /\ pc' = "thrown"
            /\ result' = [status |-> 0, body |-> "none",
                          error |-> session.promise.reason]
    /\ UNCHANGED <<tokenVars, signVars, sessions, ttsResponse, request, session, nEvents, lastEvent, settledBy, outer>>

Next ==
    \/ OnRequest
    \/ ReadBody
    \/ SignFails
    \/ EvaluationFetch
    \/ UpgradeFails
    \/ TtsFetch
    \/ TtsFails
    \/ \E r \in TtsResponses : TtsResponds(r)
    \/ Respond
    \/ UpgradeAccepted
    \/ UpgradeRefused
    \/ \E f \in Frames : OnMessage(f)
    \/ OnError
    \/ \E ev \in CloseEvents(session) : OnClose(ev)
    \/ OnTimeout
    \/ Resume

Spec == Init /\ [][Next]_vars

(* The timer fires when its time is reached, a socket that is closing or   *)
(* whose connection is gone delivers its close event, and a settled        *)
(* promise resumes its await.                                              *)
FairSpec ==
    /\ Init
    /\ [][Next]_vars
    /\ WF_vars(OnTimeout)
    /\ WF_vars(Resume)
    /\ WF_vars(\E ev \in CloseEvents(session) : OnClose(ev))

TypeOK ==
    /\ request \in Requests
    /\ pc \in {"onRequest", "evalBody", "evalSign", "upgrade", "awaiting",
              "ttsBody", "ttsSign", "ttsFetch", "returned", "thrown", "done"}
    /\ http \in HttpRequests
    /\ response.status \in {0, 200, 204, 404, 405, 500}
    /\ Len(outbound) \in 0..2
    /\ session.settled \in BOOLEAN
    /\ session.timer \in {"unset", "armed", "cleared", "fired"}
    /\ session.ws.readyState \in {"OPEN", "CLOSING", "CLOSED"}
    /\ nEvents \in 0..MaxEvents

----------------------------------------------------------------------------
(* The callers of getAccessToken.  A call runs from its invocation to its  *)
(* first await, and from each await to the next; calls of different        *)
(* callers interleave at the awaits.                                       *)

(* The proxy at rest, while the token cache or the signer is followed. *)
ProxyIdle ==
    /\ request = CHOOSE r \in Requests : r.audioBase64 = "audioA"
    /\ pc = "done"
    /\ session = NoSession
    /\ nEvents = 0
    /\ lastEvent = NoEvent
    /\ settledBy = NoEvent
    /\ result = NoResult
    /\ http = CHOOSE h \in HttpRequests :
                  /\ h.method = "OPTIONS" /\ h.path = "/api/token"
                  /\ ~h.bodyOk /\ ~SecretsMissing(h.env)
    /\ response = NoResponse
    /\ outbound = <<>>
    /\ ttsResponse = <<>>
    /\ sessions = NoSessions

(* getAccessToken() up to its first await: the cached token is returned,   *)
(* or POST /api/token is fetched.                                          *)
GetAccessToken(c) ==
    /\ calls[c].pc \in {"idle", "returned", "failed"}
    /\ nCalls < MaxCalls
    /\ nCalls' = nCalls + 1
    /\ IF cacheValid(cachedToken, clock)
       THEN /\ calls' = [calls EXCEPT ![c] =
                            [NoCall EXCEPT !.pc = "returned", !.now = clock,
                                           !.seen = cachedToken,
                                           !.fromCache = TRUE,
                                           !.ret = cachedToken.access_token]]
            /\ UNCHANGED nFetches
       ELSE /\ calls' = [calls EXCEPT ![c] =
                            [NoCall EXCEPT !.pc = "fetching", !.now = clock,
                                           !.seen = cachedToken,
                                           !.fetches = 1]]
            /\ nFetches' = nFetches + 1
    /\ UNCHANGED <<cachedToken, clock, issued, proxyVars, signVars>>

(* The call throws: its caller gets the error. *)
CallFails(c) ==
    /\ calls' = [calls EXCEPT ![c].pc = "failed"]
    /\ cachedToken' = cacheAfterFailure(cachedToken)
    /\ UNCHANGED <<clock, issued, nCalls, nFetches, proxyVars, signVars>>

(* await fetch(url, ...) rejects: a network error. *)
FetchRejects(c) ==
    /\ calls[c].pc = "fetching"
    /\ CallFails(c)

(* if (!response.ok) throw new Error('获取 Access Token 失败 ...') *)
FetchNotOk(c) ==
    /\ calls[c].pc = "fetching"
    /\ CallFails(c)

(* The response is ok: it carries a new token with its expires_in, which   *)
(* the vendor counts from an instant between the request and the answer.   *)
(* The token is listed with the `now` of the call that fetched it.         *)
FetchOk(c, e, at) ==
    /\ calls[c].pc = "fetching"
    /\ Len(issued) < MaxTokens
    /\ issued' = Append(issued, [expires_in |-> e, issuedAt |-> at,
                                 requestedAt |-> calls[c].now])
    /\ calls' = [calls EXCEPT ![c].pc = "parsing",
                              ![c].data = [access_token |-> Len(issued) + 1,
                                           expires_in |-> e]]
    /\ UNCHANGED <<cachedToken, clock, nCalls, nFetches, proxyVars, signVars>>

(* await response.json() resumes: the cache is written and the token       *)
(* returned.                                                               *)
JsonResolves(c) ==
    /\ calls[c].pc = "parsing"
    /\ cachedToken' = cacheAfterSuccess(cachedToken, calls[c].now, calls[c].data)
    /\ calls' = [calls EXCEPT ![c].pc = "returned",
                              ![c].ret = calls[c].data.access_token]
    /\ UNCHANGED <<clock, issued, nCalls, nFetches, proxyVars, signVars>>

(* Time passes. *)
Tick ==
    /\ clock < MaxTicks * TickMs
    /\ clock' = clock + TickMs
    /\ UNCHANGED <<cachedToken, calls, issued, nCalls, nFetches,
                   proxyVars, signVars>>

TokenNext ==
    \/ \E c \in Callers : GetAccessToken(c)
    \/ \E c \in Callers : FetchRejects(c)
    \/ \E c \in Callers : FetchNotOk(c)
    \/ \E c \in Callers, e \in ExpiresIn :
          \E at \in {calls[c].now, clock} : FetchOk(c, e, at)
    \/ \E c \in Callers : JsonResolves(c)
    \/ Tick

TokenSpecInit == ProxyIdle /\ TokenInit /\ SignIdle

TokenSpec == TokenSpecInit /\ [][TokenNext]_vars

----------------------------------------------------------------------------
(* The signer on its own: getXunfeiAuthParams applied to one set of        *)
(* arguments.  An empty body stands for '' and for a missing argument,     *)
(* which the code's test of body does not tell apart.                      *)
SignInputs ==
    [env : {e \in Envs : e.XUNFEI_APP_ID = "app1"},
     host : {"ise-api.xfyun.cn", "api-dx.xf-yun.com"},
     path : {"/v2/open-ise", "/v1/private/dts_create"},
     method : {"GET", "POST"},
     body : {<<>>, <<"{}">>, <<"{\"text\":\"hello\"}">>},
     date : {"Thu, 05 Nov 2026 03:00:00 GMT"}]

Unsigned ==
    [date |-> "", authorization |-> <<>>, digestHeader |-> <<>>,
     headers |-> <<>>, signatureOrigin |-> <<>>]

Sign ==
    /\ signOut = Unsigned
    /\ signOut' = getXunfeiAuthParams(signIn.env, signIn.host, signIn.path,
                                      signIn.method, signIn.body, signIn.date)
    /\ UNCHANGED <<signIn, proxyVars, tokenVars>>

SignInit ==
    /\ ProxyIdle
    /\ TokenInit
    /\ signIn \in SignInputs
    /\ signOut = Unsigned

SignNext == Sign

SignSpec == SignInit /\ [][SignNext]_vars

----------------------------------------------------------------------------
(* Several calls of handleEvaluation in progress at once.  settled,        *)
(* timeoutId, cleanup and the listeners are locals of one Promise          *)
(* executor, and ws is the socket of one upgrade response: a callback      *)
(* reads and writes the locals of the executor that created it.            *)

(* The request body of each call. *)
SessionRequest(i) ==
    CHOOSE r \in Requests :
        r.audioBase64 = (IF i = 1 THEN "audioA" ELSE "audioB")

(* The frames the concurrent sessions are followed with: one for each      *)
(* branch of the message listener.                                         *)
SessionFrames ==
    {NotJsonFrame,
     [json |-> TRUE, header |-> TRUE, code |-> 0, message |-> "",
      text |-> TextAbsent],
     [json |-> TRUE, header |-> TRUE, code |-> 0, message |-> "",
      text |-> TextResult("overall82")],
     [json |-> TRUE, header |-> TRUE, code |-> 10163,
      message |-> "licc failed", text |-> TextAbsent]}

(* A `settled` declared outside the executor and shared by the sessions. *)
inSessionSharedSettled(ss, i, s2) ==
    [j \in DOMAIN ss |->
        IF j = i THEN s2 ELSE [ss[j] EXCEPT !.settled = s2.settled]]

(* A callback of session i has run and left its executor's locals as s2. *)
inSession(ss, i, s2) == [ss EXCEPT ![i] = s2]

ListeningIn(s) == s.ws.listeners /\ s.ws.readyState # "CLOSED"

(* One callback of session i: nothing but the sessions changes. *)
SessionStep(i, s2) ==
    /\ sessions' = inSession(sessions, i, s2)
    /\ UNCHANGED <<request, pc, session, lastEvent, settledBy, result, outer,
                   ttsResponse, tokenVars, signVars>>

(* The upgrade of call i succeeded: its Promise executor runs. *)
SessionStart(i) ==
    /\ sessions[i] = NoSession
    /\ SessionStep(i, promiseExecutor(sessions[i], SessionRequest(i)))
    /\ UNCHANGED nEvents

SessionMessage(i, f) ==
    /\ ListeningIn(sessions[i])
    /\ nEvents < MaxEvents
    /\ nEvents' = nEvents + 1
    /\ SessionStep(i, messageListener(sessions[i], f))

SessionError(i) ==
    /\ ListeningIn(sessions[i])
    /\ SessionStep(i, errorListener(sessions[i]))
    /\ UNCHANGED nEvents

SessionClose(i, ev) ==
    /\ ListeningIn(sessions[i])
    /\ SessionStep(i, closeListener([sessions[i] EXCEPT
                                         !.ws.readyState = "CLOSED"], ev))
    /\ UNCHANGED nEvents

SessionTimeout(i) ==
    /\ sessions[i].timer = "armed"
    /\ SessionStep(i, timeoutCallback(sessions[i]))
    /\ UNCHANGED nEvents

SessionsNext ==
    \/ \E i \in Sids : SessionStart(i)
    \/ \E i \in Sids, f \in SessionFrames : SessionMessage(i, f)
    \/ \E i \in Sids : SessionError(i)
    \/ \E i \in Sids : \E ev \in CloseEvents(sessions[i]) : SessionClose(i, ev)
    \/ \E i \in Sids : SessionTimeout(i)

SessionsInit == ProxyIdle /\ TokenInit /\ SignIdle

SessionsSpec == SessionsInit /\ [][SessionsNext]_vars

----------------------------------------------------------------------------
(* Frames that do not match the expected envelope: data that is not JSON,  *)
(* an object without a header, a code-0 frame whose result text is not     *)
(* base64-encoded JSON.                                                    *)
Malformed(f) ==
    \/ ~f.json
    \/ ~f.header
    \/ /\ f.code = 0
       /\ f.text.truthy
       /\ (~f.text.b64 \/ f.text.json = "invalid")

Rejected(code) ==
    /\ session.promise.state = "rejected"
    /\ session.promise.reason.code = code

(* C1: exactly one of resolve/reject takes effect and takes effect once;   *)
(* after the first settlement no later event changes the settled flag, the *)
(* promise or what handleEvaluation has handed to its caller.              *)
C1_SettlesExactlyOnce ==
    [][/\ session'.funcCalls <= 1
       /\ (session'.settled <=> session'.funcCalls = 1)
       /\ (session'.settled <=> session'.promise.state # "pending")
       /\ (session.settled =>
             session'.settled /\ session'.promise = session.promise)
       /\ (pc \in {"returned", "thrown"} => pc' = pc /\ result' = result)]_vars

(* C1 witness: a session resolved by a result frame has since handled a    *)
(* frame that took the vendor-error or the parse-error branch.             *)
C1_Witness ==
    /\ session.promise.state = "fulfilled"
    /\ pc = "returned"
    /\ Len(session.ws.closeCalls) >= 2
    /\ session.ws.closeCalls[2].code \in {4000, 4001}

(* C2: every session whose listeners are installed eventually settles.     *)
C2_EventuallySettles == [](session.ws.listeners => <>session.settled)

(* C3: once the timer has fired the socket has been closed with            *)
(* 1001/'Timeout' and is not open, and when no further event can arrive    *)
(* the session has settled with the Timeout kind.                          *)
C3_TimerFiringSettlesTimeout ==
    session.timer = "fired" =>
        /\ \E i \in 1..Len(session.ws.closeCalls) :
              session.ws.closeCalls[i] = [code |-> 1001, reason |-> "Timeout"]
        /\ session.ws.readyState # "OPEN"
        /\ (session.ws.readyState = "CLOSED" =>
              Rejected(XF_TIMEOUT))

(* C4: in every terminal state of the session the socket is closed.        *)
C4_TerminalStateClosesSocket ==
    session.settled => session.ws.readyState # "OPEN"

(* C5: settlement disarms the timer, and the timer callback never runs     *)
(* once the session has settled.                                           *)
C5_TimerDisarmedOnSettlement ==
    [][/\ (session'.settled => session'.timer # "armed")
       /\ (session.settled => session'.timerRuns = session.timerRuns)]_vars

(* C5 witness: a session settled while its timer was armed. *)
C5_Witness == session.settled /\ session.timer = "cleared"

(* C6: the start frame (status 0, with the audio) is sent before the end   *)
(* frame (status 2), and a session settled by an inbound frame has sent    *)
(* both before.                                                            *)
C6_StartBeforeEndBeforeResult ==
    /\ \A i \in 1..Len(session.ws.sent) :
          session.ws.sent[i].status = 2 =>
              \E j \in 1..(i - 1) :
                  /\ session.ws.sent[j].status = 0
                  /\ session.ws.sent[j].audio = request.audioBase64
    /\ (session.settled \/ nEvents > 0 =>
          /\ \E j \in 1..Len(session.ws.sent) : session.ws.sent[j].status = 0
          /\ \E i \in 1..Len(session.ws.sent) : session.ws.sent[i].status = 2)

(* C6 witness: a result frame has resolved the session. *)
C6_Witness ==
    /\ session.promise.state = "fulfilled"
    /\ settledBy.type = "message"

(* C7: a session sends exactly two frames, the start frame with the whole  *)
(* audio and the parameters, then the end frame, and never another one.    *)
C7_ExactlyTwoFrames ==
    IF session.ws.listeners
    THEN /\ Len(session.ws.sent) = 2
         /\ session.ws.sent[1].status = 0
         /\ session.ws.sent[1].audio = request.audioBase64
         /\ session.ws.sent[1].refText = request.referenceText
         /\ session.ws.sent[1].lang = "en"
         /\ session.ws.sent[1].core = "word"
         /\ session.ws.sent[1].phoneme_output = 1
         /\ session.ws.sent[2].status = 2
    ELSE session.ws.sent = <<>>

(* C7 witness: the session has handled every kind of event and is over. *)
C7_Witness ==
    /\ nEvents = MaxEvents
    /\ session.timer = "fired"
    /\ session.ws.readyState = "CLOSED"
    /\ Len(session.ws.sent) = 2

(* C8: a session first settled by a frame with a non-zero header code is   *)
(* rejected with the VendorRejected kind, and the rejection's message      *)
(* carries the message text of that frame.                                 *)
C8_VendorErrorRejects ==
    (/\ settledBy.type = "message"
     /\ settledBy.frame.json /\ settledBy.frame.header
     /\ settledBy.frame.code # 0)
    => /\ Rejected(XF_API_ERROR)
       /\ (settledBy.frame.message # "" =>
             \E i \in 1..Len(session.promise.reason.message) :
                 session.promise.reason.message[i] = settledBy.frame.message)

(* C8 witness: a vendor error frame with a message text settled the session. *)
C8_Witness ==
    /\ settledBy.type = "message"
    /\ settledBy.frame.header
    /\ settledBy.frame.code = 10163
    /\ settledBy.frame.message = "licc failed"
    /\ session.promise.state = "rejected"

(* C9: a malformed frame handled by an unsettled session settles it with   *)
(* the ParseError kind, which is none of the kinds of vendor errors,       *)
(* connection failures, abnormal closes and timeouts.                      *)
C9_MalformedFrameIsParseError ==
    [][(/\ ~session.settled
        /\ nEvents' = nEvents + 1
        /\ Malformed(lastEvent'.frame))
       => /\ session'.settled
          /\ session'.promise.state = "rejected"
          /\ session'.promise.reason.code = XF_PARSE_ERROR
          /\ session'.promise.reason.code \notin
                {XF_API_ERROR, XF_CONNECTION_FAILED,
                 XF_CONNECTION_CLOSED, XF_TIMEOUT}]_vars

(* C9 witness: a code-0 frame whose result text is not base64-encoded JSON *)
(* settled the session.                                                    *)
C9_Witness ==
    /\ settledBy.type = "message"
    /\ settledBy.frame.header
    /\ settledBy.frame.code = 0
    /\ settledBy.frame.text \in {TextNotBase64, TextNotJson}
    /\ Rejected(XF_PARSE_ERROR)

(* C10: sessions ended by an error event, by an abnormal close and by the  *)
(* timeout reject with pairwise different kinds, and a session whose timer *)
(* fired, so that the proxy started the close, is never reported as an     *)
(* abnormal close.                                                         *)
C10_TimeoutIsNotAbnormalClose ==
    /\ (settledBy.type = "error" => Rejected(XF_CONNECTION_FAILED))
    /\ Cardinality({XF_CONNECTION_FAILED, XF_CONNECTION_CLOSED,
                    XF_TIMEOUT}) = 3
    /\ (session.timer = "fired" /\ settledBy.type = "close" =>
          /\ Rejected(XF_TIMEOUT)
          /\ ~Rejected(XF_CONNECTION_CLOSED))

----------------------------------------------------------------------------
(* A POST request has failed when its handler, or the check of the secrets, *)
(* has thrown.                                                             *)
Failed == http.method = "POST" /\ pc = "thrown"

Responded == response # NoResponse

(* C11: every failure raised while onRequest handles a POST request is     *)
(* caught and answered with status 500 and a JSON body that has an error   *)
(* message and a code.                                                     *)
C11_FailuresAnswered500 ==
    Failed /\ Responded =>
        /\ response.status = 500
        /\ response.json
        /\ response.body.error # <<>>
        /\ response.body.code # ""
        /\ \E i \in 1..Len(response.body.error) :
              SubSeq(response.body.error, i, Len(response.body.error))
                  = result.error.message

(* C11 witness: a rejected evaluation session has been answered. *)
C11_Witness ==
    /\ Failed /\ Responded
    /\ session.promise.state = "rejected"
    /\ response.body.code = XF_PARSE_ERROR

(* C12: the code of every 500 response is a kind of the taxonomy, written  *)
(* as the taxonomy writes it or as the session's rejections write it.      *)
C12_CodeIsClassified ==
    response.status = 500 =>
        response.body.code \in
            {"AuthError", "ConnectionFailed", "Timeout", "ProtocolError",
             "VendorRejected", "ParseError", "ConfigError",
             XF_API_ERROR, XF_PARSE_ERROR, XF_CONNECTION_FAILED,
             XF_CONNECTION_CLOSED, XF_TIMEOUT}

(* C13: a POST request handled while a secret is missing is answered with  *)
(* status 500, and no call to the vendor is made for it.                   *)
C13_MissingSecretsNoVendorCall ==
    http.method = "POST" /\ SecretsMissing(http.env) =>
        /\ outbound = <<>>
        /\ pc \in {"onRequest", "thrown"}
        /\ (Responded => response.status = 500)

(* C13 witness: a POST to /api/tts without the API secret was answered. *)
C13_Witness ==
    /\ http.method = "POST" /\ http.path = "/api/tts"
    /\ http.env.XUNFEI_API_SECRET = "" /\ http.env.XUNFEI_API_KEY # ""
    /\ Responded

(* C14: the 500 response to a request handled while a secret is missing    *)
(* has the code ConfigError.                                               *)
C14_MissingSecretsCodeConfigError ==
    SecretsMissing(http.env) /\ response.status = 500 =>
        response.body.code = "ConfigError"

(* C20: a request makes at most one call to the vendor: one signed POST    *)
(* once handleTts has fetched, one upgrade request once handleEvaluation   *)
(* has fetched, none before, and no failure adds a second one.             *)
C20_AtMostOneVendorCall ==
    /\ Len(outbound) <= 1
    /\ (pc \in {"ttsFetch"} => Len(outbound) = 1 /\ outbound[1].kind = "tts"
                                 /\ outbound[1].method = "POST")
    /\ (pc \in {"upgrade", "awaiting"} \/ session.ws.listeners =>
          Len(outbound) = 1 /\ outbound[1].kind = "upgrade")
    /\ (Len(outbound) = 1 =>
          /\ route(http) \in {"evaluation", "tts"}
          /\ outbound[1].kind = (IF route(http) = "tts" THEN "tts" ELSE "upgrade"))

(* C20 witness: a session that timed out has been answered with 500. *)
C20_Witness ==
    /\ Responded /\ response.status = 500
    /\ response.body.code = XF_TIMEOUT
    /\ Len(outbound) = 1


----------------------------------------------------------------------------
(* The token cache *)

(* The calls of getAccessToken that have begun. *)
Begun == {c \in Callers : calls[c].pc # "idle"}

(* The instant up to which the vendor's statement of a token's life, less  *)
(* the 60 second margin, allows the token to be used.                      *)
SafeUntil(token) ==
    issued[token].issuedAt + issued[token].expires_in * 1000 - 60000

(* C15: a call of getAccessToken made while the cached token is valid      *)
(* makes no network call and returns the cached token; a call made when    *)
(* the cached token has expired makes exactly one network call.            *)
C15_CacheHitNoFetchExpiredOneFetch ==
    \A c \in Begun :
        calls[c].seen # Null =>
            IF calls[c].seen.expires_at > calls[c].now
            THEN /\ calls[c].pc = "returned"
                 /\ calls[c].fetches = 0
                 /\ calls[c].ret = calls[c].seen.access_token
            ELSE calls[c].fetches = 1

C15_Witness ==
    \E c, d \in Callers :
        /\ calls[c].pc = "returned" /\ calls[c].fromCache
        /\ calls[c].fetches = 0
        /\ calls[d].pc = "returned" /\ calls[d].seen # Null
        /\ calls[d].seen.expires_at <= calls[d].now
        /\ calls[d].fetches = 1

(* C16: a token is returned from the cache only before its vendor-stated   *)
(* expiry less the 60 second margin; at or after that instant the cached   *)
(* token is not returned and a fetch is made, whatever expires_in was,     *)
(* 60 seconds or less included.                                            *)
C16_ReusedOnlyBeforeExpiryLessMargin ==
    \A c \in Begun :
        /\ calls[c].fromCache => calls[c].seen # Null
        /\ calls[c].seen # Null =>
              /\ calls[c].fromCache =>
                     calls[c].now < SafeUntil(calls[c].seen.access_token)
              /\ calls[c].now >= SafeUntil(calls[c].seen.access_token) =>
                     /\ ~calls[c].fromCache
                     /\ calls[c].fetches = 1

C16_Witness ==
    \E c, d \in Callers :
        /\ calls[c].pc = "returned" /\ calls[c].fromCache
        /\ calls[d].seen # Null
        /\ issued[calls[d].seen.access_token].expires_in <= 60
        /\ calls[d].now >= SafeUntil(calls[d].seen.access_token)
        /\ ~calls[d].fromCache /\ calls[d].fetches = 1

(* C17: the step in which a call of getAccessToken fails leaves the cached *)
(* token as it was, after one fetch of that call and without another; the  *)
(* step that began the call left the cached token alone as well.           *)
C17_FailureKeepsCacheNoRetry ==
    [][\A c \in Callers :
          /\ (calls[c].pc # "failed" /\ calls'[c].pc = "failed") =>
                /\ cachedToken' = cachedToken
                /\ calls[c].pc = "fetching"
                /\ calls'[c].fetches = 1
                /\ nFetches' = nFetches
          /\ (calls'[c] # calls[c] /\ calls'[c].pc = "fetching") =>
                cachedToken' = cachedToken]_vars

C17_Witness ==
    \E c \in Callers :
        /\ calls[c].pc = "failed"
        /\ calls[c].fetches = 1
        /\ calls[c].seen # Null
        /\ cachedToken = calls[c].seen


----------------------------------------------------------------------------
(* The signer *)

Signed == signOut.date # ""

(* The canonical signing string has a line that begins "digest: ". *)
HasDigestLine(signatureOrigin) ==
    \E i \in 1..Len(signatureOrigin) :
        /\ signatureOrigin[i] = "digest: "
        /\ i > 1 /\ signatureOrigin[i - 1] = "\n"

(* C18 as stated: the signing string has a digest line exactly when the    *)
(* body is not empty, whatever the method.                                 *)
C18_DigestIffBody ==
    Signed => (HasDigestLine(signOut.signatureOrigin) <=> signIn.body # <<>>)

(* C18: the signing string has a digest line exactly when the method is    *)
(* POST and the body is not empty; it has none for any empty or missing    *)
(* body.                                                                   *)
C18_DigestIffPostWithBody ==
    Signed =>
        /\ HasDigestLine(signOut.signatureOrigin)
               <=> (signIn.method = "POST" /\ signIn.body # <<>>)
        /\ signIn.body = <<>> => ~HasDigestLine(signOut.signatureOrigin)

C18_Witness ==
    /\ Signed
    /\ signIn.method = "POST" /\ signIn.body # <<>>
    /\ HasDigestLine(signOut.signatureOrigin)

----------------------------------------------------------------------------
(* The answers of onRequest *)

(* The 500 response the catch of onRequest makes of an error. *)
NormalizedError ==
    /\ response.status = 500
    /\ response.json
    /\ response.body.error # <<>>
    /\ response.body.code # ""

(* C21: a TTS call answered by the vendor with a status that is not 2xx,   *)
(* or with a 200 whose JSON body has an error code, is answered with the   *)
(* normalized error and never with a 200 that carries audio; a 200 with    *)
(* audioBase64 is returned only for a successful vendor response whose     *)
(* header code is 0.                                                       *)
C21_TtsFailuresDetected ==
    ttsResponse # <<>> /\ Responded =>
        /\ (~ttsResponse[1].ok \/ ~ttsResponse[1].json
              \/ ttsResponse[1].code # 0) => NormalizedError
        /\ response.status = 200 =>
              /\ ttsResponse[1].ok
              /\ ttsResponse[1].json
              /\ ttsResponse[1].code = 0
              /\ response.body.data = ttsResponse[1].audio

(* A POST to /api/evaluation that reached its handler. *)
EvaluationRequest == http.method = "POST" /\ route(http) = "evaluation"

C23_UnknownPathAnswered404 ==
    (/\ http.method = "POST"
     /\ http.path \notin {"/api/evaluation", "/api/tts"})
    => /\ outbound = <<>>
       /\ (Responded => response.status = 404)

(* C24: a request whose method is not POST causes no call to the vendor    *)
(* and is answered whatever the secrets are, without a throw: OPTIONS with *)
(* 204 and the Access-Control-Allow-* headers, any other method with 405.  *)
C24_NonPostDecidedAtTheGate ==
    http.method # "POST" =>
        /\ outbound = <<>>
        /\ pc \in {"onRequest", "done"}
        /\ session = NoSession
        /\ pc = "done" =>
              IF http.method = "OPTIONS"
              THEN /\ response.status = 204
                   /\ {"Access-Control-Allow-Origin",
                       "Access-Control-Allow-Methods",
                       "Access-Control-Allow-Headers"} \subseteq response.headers
              ELSE response.status = 405

(* C24 witness: a preflight to a path that is no route, with a secret      *)
(* missing, has been answered.                                             *)
C24_Witness ==
    /\ http.method = "OPTIONS" /\ http.path = "/api/token"
    /\ SecretsMissing(http.env)
    /\ pc = "done" /\ response.status = 204

----------------------------------------------------------------------------
(* Interleaved calls of getAccessToken *)

(* C25: with calls of getAccessToken interleaved at their awaits, a call   *)
(* that returns yields a token of a successful fetch response, and the     *)
(* cache slot is empty or holds the token and the expiry made of one and   *)
(* the same response, never the token of one and the expiry of another.    *)
C25_CacheSlotFromOneResponse ==
    /\ \A c \in Callers :
          calls[c].pc = "returned" =>
              /\ calls[c].ret \in 1..Len(issued)
              /\ calls[c].ret = IF calls[c].fromCache
                                THEN calls[c].seen.access_token
                                ELSE calls[c].data.access_token
    /\ \/ cachedToken = Null
       \/ /\ cachedToken.access_token \in 1..Len(issued)
          /\ cachedToken.expires_at =
                 issued[cachedToken.access_token].requestedAt
                 + (issued[cachedToken.access_token].expires_in - 60) * 1000

(* C25 witness: two refreshes overlapped and their answers were handled in *)
(* the reverse order: the slot holds the first token, written last.        *)
C25_Witness ==
    \E c, d \in Callers :
        /\ c # d
        /\ calls[c].pc = "returned" /\ ~calls[c].fromCache
        /\ calls[d].pc = "returned" /\ ~calls[d].fromCache
        /\ calls[c].ret = 1 /\ calls[d].ret = 2
        /\ issued[1].expires_in # issued[2].expires_in
        /\ cachedToken.access_token = 1

----------------------------------------------------------------------------
(* Concurrent evaluation sessions *)

(* What one callback can make of a session, given that session alone. *)
OwnOutcomes(i, s) ==
    {promiseExecutor(s, SessionRequest(i)), errorListener(s),
     timeoutCallback(s)}
    \cup {messageListener(s, f) : f \in SessionFrames}
    \cup {closeListener([s EXCEPT !.ws.readyState = "CLOSED"], ev) :
             ev \in CloseEvents(s)}

(* C26: an event of one session (a frame, an error, a close, its timer,    *)
(* its settlement) leaves the settled flag, the timer, the socket and the  *)
(* outcome of every other session as they were, and what it makes of its   *)
(* own session depends on that session alone.                              *)
C26_SessionsIndependent ==
    [][\A i \in Sids :
          sessions'[i] # sessions[i] =>
              /\ \A j \in Sids \ {i} :
                    /\ sessions'[j].settled = sessions[j].settled
                    /\ sessions'[j].timer = sessions[j].timer
                    /\ sessions'[j].ws = sessions[j].ws
                    /\ sessions'[j].promise = sessions[j].promise
                    /\ sessions'[j] = sessions[j]
              /\ sessions'[i] \in OwnOutcomes(i, sessions[i])]_vars

(* C26 witness: of two sessions that ran at the same time one resolved and *)
(* the other still waits with its timer armed and its socket open.         *)
C26_Witness ==
    \E i, j \in Sids :
        /\ sessions[i].promise.state = "fulfilled"
        /\ sessions[i].timer = "cleared"
        /\ sessions[i].ws.readyState = "CLOSED"
        /\ sessions[j].ws.listeners
        /\ ~sessions[j].settled
        /\ sessions[j].timer = "armed"
        /\ sessions[j].ws.readyState = "OPEN"

----------------------------------------------------------------------------
(* Frames and close codes of one session *)

(* A frame with header code 0 that carries no result text. *)
Intermediate(f) == f.json /\ f.header /\ f.code = 0 /\ ~f.text.truthy

(* C27: a frame with header code 0 and no result text is not terminal: the *)
(* session, its settled flag, its timer and its socket are after the frame *)
(* as they were before it.                                                 *)
C27_FrameWithoutResultChangesNothing ==
    [][(nEvents' = nEvents + 1 /\ Intermediate(lastEvent'.frame))
       => /\ session'.settled = session.settled
          /\ session'.timer = session.timer
          /\ session'.ws = session.ws
          /\ session' = session
          /\ pc' = pc]_vars

(* C27 witness: an open, unsettled session has just handled such a frame. *)
C27_Witness ==
    /\ lastEvent.type = "message" /\ Intermediate(lastEvent.frame)
    /\ ~session.settled
    /\ session.timer = "armed"
    /\ session.ws.readyState = "OPEN"
    /\ session.ws.closeCalls = <<>>

----------------------------------------------------------------------------
(* Signed and sent *)

(* piece is one of the pieces of text. *)
HasPiece(text, piece) == \E i \in 1..Len(text) : text[i] = piece

(* The signature of the request as it was sent: of its host, path, method, *)
(* body and date.                                                          *)
SignatureOfSent(out) ==
    getXunfeiAuthParams(http.env, out.host, out.path, out.method, out.body,
                        out.date)

(* C28: what is signed is what is sent.  The authorization sent is the     *)
(* signature of the date, the body, the host, the path and the method that *)
(* are sent; the Digest header sent is the digest that was signed, made of *)
(* the body sent; and the header names the authorization lists are the     *)
(* lines of the signed string, digest among them exactly when a digest     *)
(* line was signed.                                                        *)
C28_SignedIsSent ==
    \A n \in 1..Len(outbound) :
        LET out == outbound[n]
            signed == SignatureOfSent(out)
        IN  /\ out.authorization = signed.authorization
            /\ \E i \in 1..(Len(signed.signatureOrigin) - 1) :
                  /\ signed.signatureOrigin[i] = "date: "
                  /\ signed.signatureOrigin[i + 1] = out.date
            /\ out.digest = signed.digestHeader
            /\ (out.digest # <<>> =>
                  out.digest = <<"SHA-256=">> \o sha256_base64(out.body))
            /\ (out.digest # <<>> <=> HasDigestLine(signed.signatureOrigin))
            /\ (HasPiece(signed.headers, " digest")
                  <=> HasDigestLine(signed.signatureOrigin))
            /\ HasPiece(signed.headers, "host date request-line")
            /\ HasPiece(signed.signatureOrigin, "host: ")
            /\ HasPiece(out.authorization, " digest")
                  = HasPiece(signed.headers, " digest")

(* C28 witness: the POST of handleTts has left with its Digest header. *)
C28_Witness ==
    /\ Len(outbound) = 1
    /\ outbound[1].kind = "tts"
    /\ outbound[1].digest # <<>>
    /\ outbound[1].body = ttsRequestBody(http)
    /\ outbound[1].date = http.date

(* handleEvaluation threw because the upgrade response had no WebSocket. *)
HandshakeFailed ==
    /\ pc = "thrown"
    /\ result.error.message = <<"handshake failed">>

(* C29: when the upgrade response carries no WebSocket, handleEvaluation   *)
(* fails before a session exists: no frame is sent, no timer armed, no     *)
(* listener installed, and the request is answered with status 500.        *)
C29_FailedHandshakeHasNoSession ==
    HandshakeFailed =>
        /\ session.ws.sent = <<>>
        /\ session.timer = "unset"
        /\ ~session.ws.listeners
        /\ ~session.ws.accepted
        /\ session = NoSession
        /\ nEvents = 0
        /\ (Responded => response.status = 500)

(* C29 witness: a failed handshake has been answered. *)
C29_Witness ==
    /\ HandshakeFailed
    /\ Responded
    /\ Len(outbound) = 1

(* The close calls the proxy has made on the session's socket. *)
CloseCalls(s) == s.ws.closeCalls

(* C30: the code of every ws.close the proxy calls tells why it closed:    *)
(* 1000 only after a result resolved the session and never on a session    *)
(* that rejected, 4000 only after a vendor error frame, 4001 only after a  *)
(* frame that could not be read, 1001 'Timeout' only when the timer fired; *)
(* and no cause makes the proxy call close twice.                          *)
C30_CloseCodeIdentifiesCause ==
    [][Len(CloseCalls(session')) > Len(CloseCalls(session)) =>
          LET made == CloseCalls(session')[Len(CloseCalls(session'))]
          IN  /\ made.code \in {1000, 4000, 4001, 1001}
              /\ made.code = 1000 =>
                    /\ session'.promise.state = "fulfilled"
                    /\ lastEvent'.type = "message"
                    /\ lastEvent'.frame.code = 0
              /\ made.code = 4000 =>
                    /\ lastEvent'.type = "message"
                    /\ lastEvent'.frame.code # 0
              /\ made.code = 4001 =>
                    /\ lastEvent'.type = "message"
                    /\ Throws(lastEvent'.frame)
              /\ made.code = 1001 =>
                    /\ made.reason = "Timeout"
                    /\ session'.timer = "fired"
                    /\ session'.timerRuns = session.timerRuns + 1
              /\ \A k \in 1..Len(CloseCalls(session)) :
                    CloseCalls(session)[k].code # made.code]_vars
====
